---- MODULE Spec2Model ----
(***************************************************************************)
(* A model of rpstrength.py: the aggregation of a mesocycle into weekly    *)
(* set counts and max-effort records (summarize_exercises), the rendering  *)
(* of the Markdown document (generate_mesocycle_markdown and its helpers), *)
(* the muscle-group label lookup, the parsing of the mesocycle selection   *)
(* and the orchestrator loop of main with its collision-free file names.   *)
(*                                                                         *)
(* Python values are modelled as follows.  An optional value (a weight, a  *)
(* muscle group id, a missing dict key) is a tuple: <<>> is None and <<v>> *)
(* is the value v.  A dict is a function whose DOMAIN is its key set; a    *)
(* list is a sequence; a str is a string, built with \o and ToString where *)
(* the code formats one.  A text that the code takes apart (the selection, *)
(* a mesocycle name) is a sequence of one-character strings.               *)
(***************************************************************************)
EXTENDS Integers, Sequences, FiniteSets, TLC

VARIABLES
    pc,          \* position of the running program
    meso,        \* the mesocycle detail (API payload) being rendered
    agg,         \* result of summarize_exercises(meso)
    doc,         \* result of generate_mesocycle_markdown(meso)
    lk,          \* a muscle-group label lookup: the map, the id and the outcome
    sel,         \* the selection entered in main and what it selects
    run          \* the orchestrator loop of main: files, summary rows, progress

vars == <<pc, meso, agg, doc, lk, sel, run>>

None == <<>>
Some(v) == <<v>>

(***************************************************************************)
(* Bounds of the model and the input domains.                              *)
(***************************************************************************)
\* the size of a payload: the number of its weeks, days, exercise entries and sets
MaxSize == 7

Labels == {"Monday", "Tuesday", "Rest"}
Positions == {0, 1}
ExerciseIds == {1, 2}
EntryMuscleGroups == {None, Some(1), Some(13)}
SetValues ==
    { [weight |-> None, reps |-> 8],
      [weight |-> Some(0), reps |-> 10],
      [weight |-> Some(100), reps |-> 10],
      [weight |-> Some(100), reps |-> 8] }

(***************************************************************************)
(* Reference data: DEFAULT_MUSCLE_GROUP_MAP and an exercise lookup as      *)
(* load_exercise_lookup builds it (exercise 2 is not in the lookup).       *)
(***************************************************************************)
DEFAULT_MUSCLE_GROUP_MAP ==
    << "[[Chest]]", "[[Back]]", "[[Delts]]", "[[Biceps]]",
       "[[Triceps]]", "[[Quads]]", "[[Hamstrings]]", "[[Glutes]]",
       "[[Calves]]", "[[Traps]]", "[[Forearms]]", "[[Abs]]" >>

exercise_lookup ==
    (1 :> [name |-> "Bench Press", muscle_group_id |-> Some(1), equipment |-> "Barbell"])

(***************************************************************************)
(* Python dict helpers.                                                    *)
(***************************************************************************)
\* d.get(k, default), and the read d[k] of a defaultdict
Get(d, k, default) == IF k \in DOMAIN d THEN d[k] ELSE default
\* d[k] = v
Put(d, k, v) == [x \in (DOMAIN d) \cup {k} |-> IF x = k THEN v ELSE d[x]]
\* x in list
InList(x, l) == \E i \in 1..Len(l) : l[i] = x

(***************************************************************************)
(* summarize_exercises.  The aggregation state is the three defaultdicts:  *)
(* exercise_weekly[key][week] (the "sets" counter), exercise_max_effort    *)
(* and day_exercise_map.  A key is <<label, ex_id>>.                        *)
(***************************************************************************)
EmptyAgg ==
    [ exercise_weekly |-> <<>>, exercise_max_effort |-> <<>>, day_exercise_map |-> <<>> ]

DefaultMaxEffort == [weight |-> 0, reps |-> 0]

\* ProcessSet with the test "is not None" left out: a null weight counts as 0
ProcessSetCountingNull(st, key, week_index, s) ==
    LET weight == IF s.weight = None THEN 0 ELSE s.weight[1]
        byWeek == Get(st.exercise_weekly, key, <<>>)
        count == Get(byWeek, week_index, 0)
        cur == Get(st.exercise_max_effort, key, [weight |-> 0, reps |-> 0])
        best == IF weight > cur.weight THEN [weight |-> weight, reps |-> s.reps] ELSE cur
    IN [st EXCEPT !.exercise_weekly =
                      Put(st.exercise_weekly, key, Put(byWeek, week_index, count + 1)),
                  !.exercise_max_effort = Put(st.exercise_max_effort, key, best)]

\* ProcessSet with ">=" for ">": a later set of equal weight replaces the record
ProcessSetLastWins(st, key, week_index, s) ==
    IF s.weight = None
    THEN st
    ELSE LET byWeek == Get(st.exercise_weekly, key, <<>>)
             count == Get(byWeek, week_index, 0)
             cur == Get(st.exercise_max_effort, key, [weight |-> 0, reps |-> 0])
             best == IF s.weight[1] >= cur.weight
                     THEN [weight |-> s.weight[1], reps |-> s.reps]
                     ELSE cur
         IN [st EXCEPT !.exercise_weekly =
                           Put(st.exercise_weekly, key, Put(byWeek, week_index, count + 1)),
                       !.exercise_max_effort = Put(st.exercise_max_effort, key, best)]

\* lines 36-39: one set of an exercise
ProcessSet(st, key, week_index, s) ==
    IF s.weight = None
    THEN st
    ELSE LET byWeek == Get(st.exercise_weekly, key, <<>>)
             count == Get(byWeek, week_index, 0)
             weekly == Put(st.exercise_weekly, key, Put(byWeek, week_index, count + 1))
             cur == Get(st.exercise_max_effort, key, DefaultMaxEffort)
             best == IF s.weight[1] > cur.weight
                     THEN [weight |-> s.weight[1], reps |-> s.reps]
                     ELSE cur
         IN [st EXCEPT !.exercise_weekly = weekly,
                       !.exercise_max_effort = Put(st.exercise_max_effort, key, best)]

RECURSIVE SetsLoop(_, _, _, _, _)
\* line 35: for s in exercise["sets"]
SetsLoop(st, key, week_index, sets, i) ==
    IF i > Len(sets)
    THEN st
    ELSE SetsLoop(ProcessSet(st, key, week_index, sets[i]), key, week_index, sets, i + 1)

\* RecordExercise without the test "not in": every occurrence is appended
RecordExerciseEveryTime(st, label, ex_id) ==
    [st EXCEPT !.day_exercise_map =
        Put(st.day_exercise_map, label,
            Append(Get(st.day_exercise_map, label, <<>>), ex_id))]

\* lines 40-41: record the first occurrence of ex_id under the label
RecordExercise(st, label, ex_id) ==
    LET seen == Get(st.day_exercise_map, label, <<>>)
    IN [st EXCEPT !.day_exercise_map =
            Put(st.day_exercise_map, label,
                IF InList(ex_id, seen) THEN seen ELSE Append(seen, ex_id))]

RECURSIVE ExercisesLoop(_, _, _, _, _)
\* lines 32-41: for exercise in day["exercises"]
ExercisesLoop(st, label, week_index, exercises, i) ==
    IF i > Len(exercises)
    THEN st
    ELSE LET ex_id == exercises[i].exerciseId
             counted == SetsLoop(st, <<label, ex_id>>, week_index, exercises[i].sets, 1)
         IN ExercisesLoop(RecordExercise(counted, label, ex_id),
                          label, week_index, exercises, i + 1)

RECURSIVE DaysLoop(_, _, _, _)
\* lines 30-31: for day in week["days"]
DaysLoop(st, week_index, days, i) ==
    IF i > Len(days)
    THEN st
    ELSE DaysLoop(ExercisesLoop(st, days[i].label, week_index, days[i].exercises, 1),
                  week_index, days, i + 1)

RECURSIVE WeeksLoop(_, _, _)
\* line 29: for week_index, week in enumerate(meso_data["weeks"], start=1)
WeeksLoop(st, weeks, week_index) ==
    IF week_index > Len(weeks)
    THEN st
    ELSE WeeksLoop(DaysLoop(st, week_index, weeks[week_index].days, 1), weeks, week_index + 1)

summarize_exercises(meso_data) == WeeksLoop(EmptyAgg, meso_data.weeks, 1)

(***************************************************************************)
(* Python string conversions.                                              *)
(***************************************************************************)
\* str(v) of an optional number, as an f-string does it
PyStr(opt) == IF opt = None THEN "None" ELSE ToString(opt[1])

RECURSIVE Join(_)
\* ''.join(chars)
Join(chars) == IF chars = <<>> THEN "" ELSE chars[1] \o Join(Tail(chars))

\* text.replace(old, new) for one-character old and new
Replace(chars, old, new) == [i \in 1..Len(chars) |-> IF chars[i] = old THEN new ELSE chars[i]]

(***************************************************************************)
(* The muscle-group label lookup (format_training_day line 100 and         *)
(* build_summary_chart_block.mg_label).  A muscle_group_map is             *)
(* [kind |-> "list", items |-> sequence of labels], the default and a JSON *)
(* array, or [kind |-> "dict", items |-> function from str keys to         *)
(* labels], a JSON object.  The outcome is [ok |-> TRUE, value |-> label]  *)
(* or [ok |-> FALSE, value |-> the exception raised].                      *)
(***************************************************************************)
\* len(muscle_group_map)
MapLen(muscle_group_map) ==
    IF muscle_group_map.kind = "list"
    THEN Len(muscle_group_map.items)
    ELSE Cardinality(DOMAIN muscle_group_map.items)

\* muscle_group_map[index] for an int index >= 0: a list is indexed from 0; the
\* keys of a dict loaded from JSON are str, and no int equals a str
Subscript(muscle_group_map, index) ==
    IF muscle_group_map.kind = "list"
    THEN IF index < Len(muscle_group_map.items)
         THEN [ok |-> TRUE, value |-> muscle_group_map.items[index + 1]]
         ELSE [ok |-> FALSE, value |-> "IndexError"]
    ELSE [ok |-> FALSE, value |-> "KeyError"]

mg_label(mg_id, muscle_group_map) ==
    IF mg_id # None /\ mg_id[1] # 0 /\ 0 < mg_id[1] /\ mg_id[1] <= MapLen(muscle_group_map)
    THEN Subscript(muscle_group_map, mg_id[1] - 1)
    ELSE [ok |-> TRUE, value |-> "[[MuscleGroup " \o PyStr(mg_id) \o "]]"]

DefaultMap == [kind |-> "list", items |-> DEFAULT_MUSCLE_GROUP_MAP]

(***************************************************************************)
(* format_training_day: the section of one day.  The heading carries the   *)
(* week and day numbers it prints; the finish date is left out.            *)
(***************************************************************************)
\* lines 98-110: one exercise block
ExerciseBlock(exercise_entry, lookup, muscle_group_map) ==
    LET exercise_info == Get(lookup, exercise_entry.exerciseId, <<>>)
        mg_id == IF exercise_info = <<>> THEN None ELSE exercise_info.muscle_group_id
    IN [ muscle_group |-> mg_label(mg_id, muscle_group_map).value,
         name |-> IF exercise_info = <<>>
                  THEN "Exercise " \o ToString(exercise_entry.exerciseId)
                  ELSE exercise_info.name,
         equipment |-> IF exercise_info = <<>> THEN "Unknown" ELSE exercise_info.equipment,
         rows |-> [i \in 1..Len(exercise_entry.sets) |->
                      << PyStr(exercise_entry.sets[i].weight),
                         ToString(exercise_entry.sets[i].reps) >>] ]

\* format_training_day printing the 0-based week index it is given
format_training_dayZeroBasedWeek(day, week_index, lookup, muscle_group_map) ==
    [ kind |-> "day",
      week |-> week_index,
      day |-> day.position + 1,
      label |-> day.label,
      exercises |-> [i \in 1..Len(day.exercises) |->
                        ExerciseBlock(day.exercises[i], lookup, muscle_group_map)],
      rule |-> "---" ]

format_training_day(day, week_index, lookup, muscle_group_map) ==
    [ kind |-> "day",
      week |-> week_index + 1,
      day |-> day.position + 1,
      label |-> day.label,
      exercises |-> [i \in 1..Len(day.exercises) |->
                        ExerciseBlock(day.exercises[i], lookup, muscle_group_map)],
      rule |-> "---" ]

(***************************************************************************)
(* build_summary_chart_block.  weekly_sets[week_index][muscle_group] is    *)
(* the defaultdict of lines 117-125; the DataFrame of line 126 has one     *)
(* column per key of weekly_sets and one row per muscle group under any of *)
(* them, 0 where a week has no entry.  The table is modelled by its        *)
(* columns (weeks, in insertion order) and its cells by row label; the     *)
(* chart definitions, one per row, by the row labels.                      *)
(***************************************************************************)
\* CountEntry with the weighted-only count of summarize_exercises
CountEntryWeightedOnly(weekly_sets, week_index, exercise_entry) ==
    LET weighted == SelectSeq(exercise_entry.sets, LAMBDA s : s.weight # None)
    IN IF exercise_entry.muscleGroupId = None \/ Len(weighted) = 0
       THEN weekly_sets
       ELSE LET muscle_group == exercise_entry.muscleGroupId[1]
                byGroup == Get(weekly_sets, week_index, <<>>)
            IN Put(weekly_sets, week_index,
                   Put(byGroup, muscle_group, Get(byGroup, muscle_group, 0) + Len(weighted)))

\* line 125, once for every set of the entry
CountEntry(weekly_sets, week_index, exercise_entry) ==
    IF exercise_entry.muscleGroupId = None \/ Len(exercise_entry.sets) = 0
    THEN weekly_sets
    ELSE LET muscle_group == exercise_entry.muscleGroupId[1]
             byGroup == Get(weekly_sets, week_index, <<>>)
             count == Get(byGroup, muscle_group, 0)
         IN Put(weekly_sets, week_index,
                Put(byGroup, muscle_group, count + Len(exercise_entry.sets)))

RECURSIVE ChartEntriesLoop(_, _, _, _)
\* line 120: for exercise_entry in day.get("exercises", [])
ChartEntriesLoop(weekly_sets, week_index, exercises, i) ==
    IF i > Len(exercises)
    THEN weekly_sets
    ELSE ChartEntriesLoop(CountEntry(weekly_sets, week_index, exercises[i]),
                          week_index, exercises, i + 1)

RECURSIVE ChartDaysLoop(_, _, _, _)
\* line 119: for day in week.get("days", [])
ChartDaysLoop(weekly_sets, week_index, days, i) ==
    IF i > Len(days)
    THEN weekly_sets
    ELSE ChartDaysLoop(ChartEntriesLoop(weekly_sets, week_index, days[i].exercises, 1),
                       week_index, days, i + 1)

RECURSIVE ChartWeeksLoop(_, _, _)
\* line 118: for week_index, week in enumerate(weeks, start=1)
ChartWeeksLoop(weekly_sets, weeks, week_index) ==
    IF week_index > Len(weeks)
    THEN weekly_sets
    ELSE ChartWeeksLoop(ChartDaysLoop(weekly_sets, week_index, weeks[week_index].days, 1),
                        weeks, week_index + 1)

RECURSIVE Ascending(_)
\* the elements of a set of integers as an ascending sequence
Ascending(S) ==
    IF S = {}
    THEN <<>>
    ELSE LET least == CHOOSE x \in S : \A y \in S : x <= y
         IN <<least>> \o Ascending(S \ {least})

build_summary_chart_block(weeks, muscle_group_map) ==
    LET weekly_sets == ChartWeeksLoop(<<>>, weeks, 1)
        columns == Ascending(DOMAIN weekly_sets)
        groups == UNION {DOMAIN weekly_sets[w] : w \in DOMAIN weekly_sets}
        label(mg) == mg_label(Some(mg), muscle_group_map).value
    IN [ kind |-> "chart",
         columns |-> [i \in 1..Len(columns) |-> "W" \o ToString(columns[i])],
         cells |-> [l \in {label(mg) : mg \in groups} |->
                       [i \in 1..Len(columns) |->
                           LET mg == CHOOSE g \in groups : label(g) = l
                           IN ToString(Get(weekly_sets[columns[i]], mg, 0))]],
         charts |-> {label(mg) : mg \in groups} ]

(***************************************************************************)
(* generate_mesocycle_markdown: the document as the sequence of its        *)
(* blocks, in the order line 196 and the loop of lines 198-200 put them.   *)
(* The timestamps of the frontmatter are left out.                         *)
(***************************************************************************)
WEEKDAY_ORDER ==
    <<"Monday", "Tuesday", "Wednesday", "Thursday", "Friday", "Saturday", "Sunday">>

\* WeeklyCounts over the weeks recorded for the key instead of range(1, N + 1)
WeeklyCountsRecordedWeeks(exercise_weekly, key, n_weeks) ==
    LET byWeek == Get(exercise_weekly, key, <<>>)
        recorded == Ascending(DOMAIN byWeek)
    IN [i \in 1..Len(recorded) |-> byWeek[recorded[i]]]

\* lines 186 and 327: one count per week 1..len(weeks)
WeeklyCounts(exercise_weekly, key, n_weeks) ==
    [w \in 1..n_weeks |-> Get(Get(exercise_weekly, key, <<>>), w, 0)]

RECURSIVE Sum(_)
Sum(counts) == IF counts = <<>> THEN 0 ELSE counts[1] + Sum(Tail(counts))

\* lines 188-191 and 337: the max-effort cells
MaxData(exercise_max_effort, key) == Get(exercise_max_effort, key, DefaultMaxEffort)

MaxRepsCell(max_data) == IF max_data.reps >= 0 THEN ToString(max_data.reps) ELSE ""

\* lines 189 and 330
ExerciseName(lookup, ex_id) ==
    IF ex_id \in DOMAIN lookup THEN lookup[ex_id].name ELSE "Exercise " \o ToString(ex_id)

\* lines 185-193: the data row of one exercise
SummaryRow(summary, day_label, ex_id, lookup, n_weeks) ==
    LET key == <<day_label, ex_id>>
        weekly_counts == WeeklyCounts(summary.exercise_weekly, key, n_weeks)
        max_data == MaxData(summary.exercise_max_effort, key)
    IN [ kind |-> "exercise",
         cells |-> <<"[[" \o ExerciseName(lookup, ex_id) \o "]]">>
                   \o [w \in 1..Len(weekly_counts) |-> ToString(weekly_counts[w])]
                   \o <<ToString(Sum(weekly_counts)), ToString(max_data.weight),
                        MaxRepsCell(max_data)>> ]

\* lines 181-193: the sub-header row of a day and the rows of its exercises
DayRows(summary, day_label, lookup, n_weeks) ==
    IF day_label \notin DOMAIN summary.day_exercise_map
    THEN <<>>
    ELSE <<[kind |-> "day", cells |-> <<"**" \o day_label \o "**">>]>>
         \o [i \in 1..Len(summary.day_exercise_map[day_label]) |->
                SummaryRow(summary, day_label, summary.day_exercise_map[day_label][i],
                           lookup, n_weeks)]

RECURSIVE SummaryRows(_, _, _, _)
\* line 180: for day_label in WEEKDAY_ORDER
SummaryRows(summary, lookup, n_weeks, d) ==
    IF d > Len(WEEKDAY_ORDER)
    THEN <<>>
    ELSE DayRows(summary, WEEKDAY_ORDER[d], lookup, n_weeks)
         \o SummaryRows(summary, lookup, n_weeks, d + 1)

RECURSIVE DaySections(_, _, _, _, _)
\* lines 198-200: the day sections of the weeks from week_index (0-based) on
DaySections(weeks, week_index, d, lookup, muscle_group_map) ==
    IF week_index >= Len(weeks)
    THEN <<>>
    ELSE IF d > Len(weeks[week_index + 1].days)
         THEN DaySections(weeks, week_index + 1, 1, lookup, muscle_group_map)
         ELSE <<format_training_day(weeks[week_index + 1].days[d], week_index,
                                    lookup, muscle_group_map)>>
              \o DaySections(weeks, week_index, d + 1, lookup, muscle_group_map)

generate_mesocycle_markdown(mesocycle_data, source_filename, lookup, muscle_group_map) ==
    LET n_weeks == Len(mesocycle_data.weeks)
        summary == summarize_exercises(mesocycle_data)
    IN << [ kind |-> "frontmatter",
            title |-> Join(Replace(mesocycle_data.name, " ", "_")),
            source |-> source_filename ],
          [ kind |-> "summary",
            header |-> <<"Exercise">> \o [w \in 1..n_weeks |-> "W" \o ToString(w)]
                       \o <<"Total", "Max Weight", "Max Reps">>,
            rows |-> SummaryRows(summary, lookup, n_weeks, 1) ],
          build_summary_chart_block(mesocycle_data.weeks, muscle_group_map) >>
       \o DaySections(mesocycle_data.weeks, 0, 1, lookup, muscle_group_map)

(***************************************************************************)
(* The rendering of one mesocycle detail.  The payload is an input: it is  *)
(* put together week by week, day by day, exercise by exercise and set by  *)
(* set within the bounds, or is the scenario of the specification, and is  *)
(* then aggregated and rendered.                                           *)
(***************************************************************************)
MesoName == <<"M", "y", " ", "P", "l", "a", "n">>

EmptyMeso == [name |-> MesoName, key |-> "k1", weeks |-> <<>>]

ScenarioMeso ==
    [ name |-> MesoName, key |-> "k1",
      weeks |->
        << [days |-> << [label |-> "Monday", position |-> 0, exercises |->
              << [exerciseId |-> 1, muscleGroupId |-> None, sets |->
                    << [weight |-> Some(100), reps |-> 10],
                       [weight |-> None, reps |-> 8],
                       [weight |-> Some(110), reps |-> 8] >>] >>] >>],
           [days |-> << [label |-> "Monday", position |-> 0, exercises |->
              << [exerciseId |-> 1, muscleGroupId |-> None, sets |->
                    << [weight |-> Some(105), reps |-> 8] >>] >>] >>] >> ]

RECURSIVE Flatten(_)
\* the concatenation of a sequence of sequences
Flatten(seqs) == IF seqs = <<>> THEN <<>> ELSE seqs[1] \o Flatten(Tail(seqs))

\* the days, exercise entries and sets of a payload, in traversal order
AllDays(m) == Flatten([w \in 1..Len(m.weeks) |-> m.weeks[w].days])
AllExercises(m) == LET days == AllDays(m) IN Flatten([d \in 1..Len(days) |-> days[d].exercises])
AllSets(m) == LET entries == AllExercises(m) IN Flatten([e \in 1..Len(entries) |-> entries[e].sets])
Size(m) == Len(m.weeks) + Len(AllDays(m)) + Len(AllExercises(m)) + Len(AllSets(m))

Init ==
    /\ pc = "input"
    /\ meso \in {EmptyMeso, ScenarioMeso}
    /\ agg = EmptyAgg
    /\ doc = <<>>
    /\ lk = <<>> /\ sel = <<>> /\ run = <<>>

AddWeek ==
    /\ pc = "input"
    /\ Size(meso) < MaxSize
    /\ meso' = [meso EXCEPT !.weeks = Append(@, [days |-> <<>>])]
    /\ UNCHANGED <<pc, agg, doc, lk, sel, run>>

AddDay(labels, positions) ==
    /\ pc = "input"
    /\ Len(meso.weeks) > 0
    /\ Size(meso) < MaxSize
    /\ \E label \in labels, position \in positions :
          meso' = [meso EXCEPT !.weeks[Len(meso.weeks)].days =
                      Append(@, [label |-> label, position |-> position,
                                 exercises |-> <<>>])]
    /\ UNCHANGED <<pc, agg, doc, lk, sel, run>>

AddExercise(ids, groups) ==
    /\ pc = "input"
    /\ Len(meso.weeks) > 0
    /\ Len(meso.weeks[Len(meso.weeks)].days) > 0
    /\ Size(meso) < MaxSize
    /\ LET w == Len(meso.weeks)
           d == Len(meso.weeks[w].days)
       IN \E ex_id \in ids, mg \in groups :
             meso' = [meso EXCEPT !.weeks[w].days[d].exercises =
                         Append(@, [exerciseId |-> ex_id, muscleGroupId |-> mg,
                                    sets |-> <<>>])]
    /\ UNCHANGED <<pc, agg, doc, lk, sel, run>>

AddSet(values) ==
    /\ pc = "input"
    /\ Len(meso.weeks) > 0
    /\ Len(meso.weeks[Len(meso.weeks)].days) > 0
    /\ Len(meso.weeks[Len(meso.weeks)].days[Len(meso.weeks[Len(meso.weeks)].days)].exercises) > 0
    /\ Size(meso) < MaxSize
    /\ LET w == Len(meso.weeks)
           d == Len(meso.weeks[w].days)
           e == Len(meso.weeks[w].days[d].exercises)
       IN \E s \in values :
             meso' = [meso EXCEPT !.weeks[w].days[d].exercises[e].sets = Append(@, s)]
    /\ UNCHANGED <<pc, agg, doc, lk, sel, run>>

\* lines 320 and 342 of main: aggregate and render the payload
Render ==
    /\ pc = "input"
    /\ pc' = "done"
    /\ agg' = summarize_exercises(meso)
    /\ doc' = generate_mesocycle_markdown(meso, meso.key \o ".json", exercise_lookup, DefaultMap)
    /\ UNCHANGED <<meso, lk, sel, run>>

\* payloads of the specification's shape {exerciseId, sets}, with every day label
Next ==
    \/ AddWeek
    \/ AddDay(Labels, {0})
    \/ AddExercise(ExerciseIds, {None})
    \/ AddSet(SetValues)
    \/ Render

Spec == Init /\ [][Next]_vars

\* payloads whose exercise entries may carry a muscleGroupId of their own
NextChart ==
    \/ AddWeek
    \/ AddDay({"Monday"}, {0})
    \/ AddExercise(ExerciseIds, EntryMuscleGroups)
    \/ AddSet({s \in SetValues : s.reps = 8})
    \/ Render

SpecChart == Init /\ [][NextChart]_vars

\* payloads whose days come in any order of their positions
NextDoc ==
    \/ AddWeek
    \/ AddDay({"Monday", "Rest"}, Positions)
    \/ AddExercise({1}, {None})
    \/ AddSet({s \in SetValues : s.reps = 8})
    \/ Render

SpecDoc == Init /\ [][NextDoc]_vars

(***************************************************************************)
(* What the claims speak of, read off the payload itself.                  *)
(***************************************************************************)
\* the sets of exercise ex_id under day label `label` in week w, in traversal order
SetsInWeek(m, label, ex_id, w) ==
    LET days == m.weeks[w].days
    IN Flatten([d \in 1..Len(days) |->
          IF days[d].label # label
          THEN <<>>
          ELSE Flatten([e \in 1..Len(days[d].exercises) |->
                  IF days[d].exercises[e].exerciseId = ex_id
                  THEN days[d].exercises[e].sets
                  ELSE <<>>])])

\* the same over all weeks
SetsOfKey(m, label, ex_id) ==
    Flatten([w \in 1..Len(m.weeks) |-> SetsInWeek(m, label, ex_id, w)])

HasWeight(s) == s.weight # None
Weighted(sets) == SelectSeq(sets, HasWeight)

\* the <<label, ex_id>> keys that occur in the payload
KeysOf(m) ==
    LET days == AllDays(m)
    IN UNION {{<<days[d].label, days[d].exercises[e].exerciseId>> :
                  e \in 1..Len(days[d].exercises)} : d \in 1..Len(days)}

\* the exercise ids under a day label, every occurrence, in traversal order
IdsUnder(m, label) ==
    LET days == AllDays(m)
    IN Flatten([d \in 1..Len(days) |->
          IF days[d].label = label
          THEN [e \in 1..Len(days[d].exercises) |-> days[d].exercises[e].exerciseId]
          ELSE <<>>])

RECURSIVE FirstSeen(_)
\* a sequence without its repetitions, first occurrences kept in order
FirstSeen(seq) ==
    IF seq = <<>>
    THEN <<>>
    ELSE LET front == FirstSeen(SubSeq(seq, 1, Len(seq) - 1))
             last == seq[Len(seq)]
         IN IF InList(last, front) THEN front ELSE Append(front, last)

Weekdays == {WEEKDAY_ORDER[d] : d \in 1..Len(WEEKDAY_ORDER)}

\* the summary table of the rendered document and the keys it has a data row for
SummaryTable == doc[2]
RenderedKeys == {k \in KeysOf(meso) : k[1] \in Weekdays}

\* the row of the table for the i-th exercise under a weekday label
HeaderIndex(label) ==
    CHOOSE j \in 1..Len(SummaryTable.rows) :
        SummaryTable.rows[j] = [kind |-> "day", cells |-> <<"**" \o label \o "**">>]
RowOf(key) ==
    LET order == FirstSeen(IdsUnder(meso, key[1]))
        i == CHOOSE k \in 1..Len(order) : order[k] = key[2]
    IN SummaryTable.rows[HeaderIndex(key[1]) + i]

(***************************************************************************)
(* C1: for a mesocycle of N weeks, the weekly counts rendered for every    *)
(* (dayLabel, exerciseId) key of the summary table are exactly N, for the  *)
(* weeks 1..N in order, and the count is 0 for a week in which the         *)
(* exercise has no weighted set under that day label.                      *)
(***************************************************************************)
C1_WeeklyCountsHaveNEntries ==
    pc = "done" =>
        \A key \in RenderedKeys :
            LET n == Len(meso.weeks)
                cells == RowOf(key).cells
            IN /\ Len(cells) = n + 4
               /\ Len(WeeklyCounts(agg.exercise_weekly, key, n)) = n
               /\ \A w \in 1..n :
                     LET counted == Len(Weighted(SetsInWeek(meso, key[1], key[2], w)))
                     IN /\ cells[1 + w] = ToString(counted)
                        /\ WeeklyCounts(agg.exercise_weekly, key, n)[w] = counted
                        /\ (SetsInWeek(meso, key[1], key[2], w) = <<>> => cells[1 + w] = "0")

\* a key with a weighted set in week 1 and no occurrence in week 2
C1_Witness ==
    /\ pc = "done"
    /\ Len(meso.weeks) = 2
    /\ \E key \in RenderedKeys :
          /\ Weighted(SetsInWeek(meso, key[1], key[2], 1)) # <<>>
          /\ SetsInWeek(meso, key[1], key[2], 2) = <<>>
          /\ RowOf(key).cells[3] = "0"

(***************************************************************************)
(* C2: a set of null weight changes neither a weekly count nor a           *)
(* max-effort record: the aggregation equals that of the payload with its  *)
(* null-weight sets removed, the exercise still being recorded in the      *)
(* day's order, and every weekly count is the number of weighted sets of   *)
(* the exercise under the day label in the week.                           *)
(***************************************************************************)
WithoutNullSets(m) ==
    [m EXCEPT !.weeks =
        [w \in 1..Len(m.weeks) |->
            [days |-> [d \in 1..Len(m.weeks[w].days) |->
                [m.weeks[w].days[d] EXCEPT !.exercises =
                    [e \in 1..Len(m.weeks[w].days[d].exercises) |->
                        [m.weeks[w].days[d].exercises[e] EXCEPT !.sets = Weighted(@)]]]]]]]

\* C2: the aggregation is that of the payload without its null-weight sets, the
\* exercise is still in the day's order, and every weekly count is the number of
\* weighted sets of the exercise under the day label in the week.
C2_NullWeightSetsAreNotCounted ==
    pc = "done" =>
        /\ agg = summarize_exercises(WithoutNullSets(meso))
        /\ \A key \in KeysOf(meso) :
              /\ InList(key[2], agg.day_exercise_map[key[1]])
              /\ \A w \in 1..Len(meso.weeks) :
                    Get(Get(agg.exercise_weekly, key, <<>>), w, 0)
                        = Len(Weighted(SetsInWeek(meso, key[1], key[2], w)))

\* an exercise with a null-weight set beside a weighted one
C2_Witness ==
    /\ pc = "done"
    /\ \E key \in KeysOf(meso) :
          /\ \E i \in 1..Len(SetsOfKey(meso, key[1], key[2])) :
                SetsOfKey(meso, key[1], key[2])[i].weight = None
          /\ Weighted(SetsOfKey(meso, key[1], key[2])) # <<>>

(***************************************************************************)
(* C3: the max-effort record of a key.                                     *)
(***************************************************************************)
\* the first set of greatest weight among weighted sets, in traversal order
FirstHeaviest(sets) ==
    sets[CHOOSE i \in 1..Len(sets) :
            /\ \A j \in 1..Len(sets) : sets[j].weight[1] <= sets[i].weight[1]
            /\ \A j \in 1..(i - 1) : sets[j].weight[1] < sets[i].weight[1]]

RecordOf(s) == [weight |-> s.weight[1], reps |-> s.reps]

\* C3 as claimed: for every (dayLabel, exerciseId) key with a weighted set, the
\* max-effort record holds the weight and reps of the first set of maximum weight
\* among the key's weighted sets across all weeks.
C3_MaxEffortIsFirstHeaviestSet ==
    pc = "done" =>
        \A key \in KeysOf(meso) :
            LET sets == Weighted(SetsOfKey(meso, key[1], key[2]))
            IN sets # <<>> =>
                  MaxData(agg.exercise_max_effort, key) = RecordOf(FirstHeaviest(sets))

\* C3 as amended: the record starts at weight 0, reps 0 and is replaced only by a
\* weighted set of strictly greater weight, so it holds the weight and reps of the
\* first set of maximum weight when that weight is above 0 and stays at weight 0,
\* reps 0 when the key has no weighted set of weight above 0; for the scenario of
\* sets [{100,10},{null,8},{110,8}] in week 1 and [{105,8}] in week 2 it is weight
\* 110, reps 8, with weekly counts [2,1] and total 3.
C3_MaxEffortAboveTheInitialZero ==
    pc = "done" =>
        /\ \A key \in KeysOf(meso) :
              LET sets == Weighted(SetsOfKey(meso, key[1], key[2]))
              IN MaxData(agg.exercise_max_effort, key) =
                    IF sets # <<>> /\ FirstHeaviest(sets).weight[1] > 0
                    THEN RecordOf(FirstHeaviest(sets))
                    ELSE [weight |-> 0, reps |-> 0]
        /\ meso = ScenarioMeso =>
              /\ agg.exercise_max_effort[<<"Monday", 1>>] = [weight |-> 110, reps |-> 8]
              /\ WeeklyCounts(agg.exercise_weekly, <<"Monday", 1>>, 2) = <<2, 1>>
              /\ RowOf(<<"Monday", 1>>).cells = <<"[[Bench Press]]", "2", "1", "3", "110", "8">>

\* two sets of the same greatest weight and different reps under one key
C3_Witness ==
    /\ pc = "done"
    /\ \E key \in KeysOf(meso) :
          LET sets == Weighted(SetsOfKey(meso, key[1], key[2]))
          IN /\ Len(sets) = 2
             /\ sets[1].weight = sets[2].weight
             /\ sets[1].weight[1] > 0
             /\ sets[1].reps # sets[2].reps
             /\ agg.exercise_max_effort[key].reps = sets[1].reps

(***************************************************************************)
(* C9: the summary table has a sub-header row for each weekday label that  *)
(* has an exercise, in Monday..Sunday order whatever the order of the days *)
(* in the data, and under it one data row per distinct exerciseId seen     *)
(* under the label, in first-seen order; a day whose label is no weekday   *)
(* name has no row in the table and still has its day section.             *)
(***************************************************************************)
ExpectedFirstCells ==
    Flatten([d \in 1..Len(WEEKDAY_ORDER) |->
        LET ids == FirstSeen(IdsUnder(meso, WEEKDAY_ORDER[d]))
        IN IF ids = <<>>
           THEN <<>>
           ELSE <<"**" \o WEEKDAY_ORDER[d] \o "**">>
                \o [i \in 1..Len(ids) |-> "[[" \o ExerciseName(exercise_lookup, ids[i]) \o "]]"]])

ExpectedKinds ==
    Flatten([d \in 1..Len(WEEKDAY_ORDER) |->
        LET ids == FirstSeen(IdsUnder(meso, WEEKDAY_ORDER[d]))
        IN IF ids = <<>> THEN <<>> ELSE <<"day">> \o [i \in 1..Len(ids) |-> "exercise"]])

\* C9: the rows of the summary table are, for each weekday label with an exercise
\* in Monday..Sunday order, its sub-header and one row per distinct exercise in
\* first-seen order; every day, weekday or not, has its section.
C9_SummaryRowsByWeekdayThenFirstSeen ==
    pc = "done" =>
        /\ [i \in 1..Len(SummaryTable.rows) |-> SummaryTable.rows[i].cells[1]] = ExpectedFirstCells
        /\ [i \in 1..Len(SummaryTable.rows) |-> SummaryTable.rows[i].kind] = ExpectedKinds
        /\ \A k \in 1..Len(AllDays(meso)) :
              /\ doc[3 + k].kind = "day"
              /\ doc[3 + k].label = AllDays(meso)[k].label

\* Tuesday comes before Monday in the data and a day that is no weekday has an
\* exercise: the table has the two sub-headers and a row under each
C9_Witness ==
    /\ pc = "done"
    /\ LET days == AllDays(meso)
       IN /\ \E i, j \in 1..Len(days) :
                /\ i < j
                /\ days[i].label = "Tuesday" /\ days[i].exercises # <<>>
                /\ days[j].label = "Monday" /\ days[j].exercises # <<>>
          /\ \E k \in 1..Len(days) : days[k].label = "Rest" /\ days[k].exercises # <<>>
    /\ Len(SummaryTable.rows) = 4

(***************************************************************************)
(* C8: the muscle-group volume table.                                      *)
(***************************************************************************)
ChartBlock == doc[3]

\* the exercise entries of week w
EntriesInWeek(m, w) ==
    LET days == m.weeks[w].days IN Flatten([d \in 1..Len(days) |-> days[d].exercises])

\* the number of sets, of any weight, of the entries of week w that satisfy Of
SetsOfEntries(m, w, Of(_)) ==
    LET entries == SelectSeq(EntriesInWeek(m, w), Of)
    IN Len(Flatten([e \in 1..Len(entries) |-> entries[e].sets]))

\* the label the specification gives a muscle group id under the default map
LabelOfGroup(mg) ==
    IF mg \in 1..Len(DEFAULT_MUSCLE_GROUP_MAP)
    THEN DEFAULT_MUSCLE_GROUP_MAP[mg]
    ELSE "[[MuscleGroup " \o ToString(mg) \o "]]"

\* the cell of the table for a row label and a week, None when the table has none
ChartCell(label, w) ==
    IF /\ label \in DOMAIN ChartBlock.cells
       /\ \E i \in 1..Len(ChartBlock.columns) : ChartBlock.columns[i] = "W" \o ToString(w)
    THEN Some(ChartBlock.cells[label][CHOOSE i \in 1..Len(ChartBlock.columns) :
                                         ChartBlock.columns[i] = "W" \o ToString(w)])
    ELSE None

\* C8 as claimed: when the exercise entries have the shape {exerciseId, sets}, the
\* table gives for every muscle group of an exercise of the mesocycle (the group
\* the lookup associates with the exerciseId) and every week in which it has sets
\* the total number of sets of that group's exercises, null-weight sets included.
C8_VolumeByMuscleGroupOfTheExerciseId ==
    (pc = "done" /\ \A e \in 1..Len(AllExercises(meso)) :
                        AllExercises(meso)[e].muscleGroupId = None) =>
        \A ex_id \in DOMAIN exercise_lookup, w \in 1..Len(meso.weeks) :
            LET mg == exercise_lookup[ex_id].muscle_group_id
                InGroup(entry) ==
                    /\ entry.exerciseId \in DOMAIN exercise_lookup
                    /\ exercise_lookup[entry.exerciseId].muscle_group_id = mg
                total == SetsOfEntries(meso, w, InGroup)
            IN total > 0 => ChartCell(LabelOfGroup(mg[1]), w) = Some(ToString(total))

\* C8 as amended: the table gives, for every muscle group id that an exercise
\* entry with sets carries in its own muscleGroupId field and every week in which
\* an entry with such a field has a set, the total number of sets (null-weight
\* sets included) of the entries of that week that carry the id; an entry without
\* the field is not counted and a week without a counted set has no column.
C8_VolumeByMuscleGroupIdOfTheEntry ==
    pc = "done" =>
        LET total(mg, w) ==
                LET Carries(entry) == entry.muscleGroupId = Some(mg)
                IN SetsOfEntries(meso, w, Carries)
            ids == {AllExercises(meso)[e].muscleGroupId[1] :
                       e \in {x \in 1..Len(AllExercises(meso)) :
                                 /\ AllExercises(meso)[x].muscleGroupId # None
                                 /\ AllExercises(meso)[x].sets # <<>>}}
            weeks == {w \in 1..Len(meso.weeks) : \E mg \in ids : total(mg, w) > 0}
        IN /\ DOMAIN ChartBlock.cells = {LabelOfGroup(mg) : mg \in ids}
           /\ ChartBlock.columns =
                 [i \in 1..Cardinality(weeks) |-> "W" \o ToString(Ascending(weeks)[i])]
           /\ \A mg \in ids, w \in 1..Len(meso.weeks) :
                 ChartCell(LabelOfGroup(mg), w) =
                    IF w \in weeks THEN Some(ToString(total(mg, w))) ELSE None

\* an entry with its own muscleGroupId and a null-weight set, beside an entry of the
\* shape {exerciseId, sets} with a set
C8_Witness ==
    /\ pc = "done"
    /\ \E e, f \in 1..Len(AllExercises(meso)) :
          /\ AllExercises(meso)[e].muscleGroupId = Some(13)
          /\ \E i \in 1..Len(AllExercises(meso)[e].sets) :
                AllExercises(meso)[e].sets[i].weight = None
          /\ AllExercises(meso)[f].muscleGroupId = None
          /\ AllExercises(meso)[f].sets # <<>>
    /\ DOMAIN ChartBlock.cells = {"[[MuscleGroup 13]]"}

(***************************************************************************)
(* C10: the composition of the document.                                   *)
(***************************************************************************)
\* the 1-based week number of every day of the payload, in traversal order
WeekNumbers(m) ==
    Flatten([w \in 1..Len(m.weeks) |-> [d \in 1..Len(m.weeks[w].days) |-> w]])

\* C10 as claimed: frontmatter, summary table, chart block, then one section per
\* (week, day), the sections in ascending week number and, within a week, in
\* ascending day position for any ordering of the days in the input.
C10_SectionsInWeekAndPositionOrder ==
    pc = "done" =>
        /\ Len(doc) = 3 + Len(AllDays(meso))
        /\ <<doc[1].kind, doc[2].kind, doc[3].kind>> = <<"frontmatter", "summary", "chart">>
        /\ \A i, j \in 4..Len(doc) :
              i < j => \/ doc[i].week < doc[j].week
                       \/ doc[i].week = doc[j].week /\ doc[i].day <= doc[j].day

\* C10 as amended: frontmatter, summary table, chart block, then exactly one
\* section per (week, day), in ascending week number and, within a week, in the
\* order in which the days occur in the week's list of days (which is ascending
\* position only when the input lists them so); the heading of a section shows
\* the 1-based week number and position + 1, and a horizontal rule ends it.
C10_SectionsInWeekAndInputOrder ==
    pc = "done" =>
        /\ Len(doc) = 3 + Len(AllDays(meso))
        /\ <<doc[1].kind, doc[2].kind, doc[3].kind>> = <<"frontmatter", "summary", "chart">>
        /\ \A k \in 1..Len(AllDays(meso)) :
              /\ doc[3 + k].kind = "day"
              /\ doc[3 + k].week = WeekNumbers(meso)[k]
              /\ doc[3 + k].day = AllDays(meso)[k].position + 1
              /\ doc[3 + k].label = AllDays(meso)[k].label
              /\ Len(doc[3 + k].exercises) = Len(AllDays(meso)[k].exercises)
              /\ doc[3 + k].rule = "---"

\* two weeks with days, the days of one week listed against their positions
C10_Witness ==
    /\ pc = "done"
    /\ Len(meso.weeks) = 2
    /\ meso.weeks[1].days # <<>>
    /\ Len(meso.weeks[2].days) = 2
    /\ meso.weeks[2].days[1].position > meso.weeks[2].days[2].position
    /\ doc[5].day = 2 /\ doc[6].day = 1

(***************************************************************************)
(* The muscle-group label lookup on its own: a map as                      *)
(* load_muscle_group_map returns it (the default list, or the JSON array   *)
(* or JSON object of the --muscle-groups file) and a muscle group id.      *)
(***************************************************************************)
MaxMapLen == 3

MapLabels == {"[[Chest]]", "[[Back]]"}
MapKeys == {"1", "2", "7"}
ListMaps ==
    {[kind |-> "list", items |-> items] :
        items \in UNION {[1..n -> MapLabels] : n \in 0..MaxMapLen}}
DictMaps ==
    {[kind |-> "dict", items |-> items] :
        items \in UNION {[keys -> MapLabels] : keys \in SUBSET MapKeys}}
MuscleGroupIds == {None} \cup {Some(i) : i \in -1..(MaxMapLen + 5)}

InitLabel ==
    /\ pc = "lookup"
    /\ lk \in [map : ListMaps \cup DictMaps, id : MuscleGroupIds, out : {None}]
    /\ meso = EmptyMeso /\ agg = EmptyAgg /\ doc = <<>>
    /\ sel = <<>> /\ run = <<>>

\* lines 100 and 129
Lookup ==
    /\ pc = "lookup"
    /\ pc' = "done"
    /\ lk' = [lk EXCEPT !.out = Some(mg_label(lk.id, lk.map))]
    /\ UNCHANGED <<meso, agg, doc, sel, run>>

SpecLabel == InitLabel /\ [][Lookup]_vars

(***************************************************************************)
(* C6: the lookup gives the label at position id - 1 of a dense sequence   *)
(* when 1 <= id <= length, the label stored under the id's key of a sparse *)
(* ID-keyed mapping, and the placeholder "[[MuscleGroup {id}]]" whenever   *)
(* the id is absent from the map, outside its range or null; it does not   *)
(* fail.                                                                   *)
(***************************************************************************)
Placeholder(id) == [ok |-> TRUE, value |-> "[[MuscleGroup " \o PyStr(id) \o "]]"]

\* C6: position id - 1 of a dense sequence, the label under the id's key of a sparse
\* mapping, the placeholder otherwise; never a failure.
C6_LookupSupportsBothRepresentations ==
    pc = "done" =>
        lk.out[1] =
            IF lk.map.kind = "list"
            THEN IF lk.id # None /\ lk.id[1] \in 1..Len(lk.map.items)
                 THEN [ok |-> TRUE, value |-> lk.map.items[lk.id[1]]]
                 ELSE Placeholder(lk.id)
            ELSE IF lk.id # None /\ ToString(lk.id[1]) \in DOMAIN lk.map.items
                 THEN [ok |-> TRUE, value |-> lk.map.items[ToString(lk.id[1])]]
                 ELSE Placeholder(lk.id)

\* what does hold: the claim for a dense sequence
C6_LookupInADenseSequence ==
    (pc = "done" /\ lk.map.kind = "list") =>
        lk.out[1] =
            IF lk.id # None /\ lk.id[1] \in 1..Len(lk.map.items)
            THEN [ok |-> TRUE, value |-> lk.map.items[lk.id[1]]]
            ELSE Placeholder(lk.id)

(***************************************************************************)
(* The selection of mesocycles (main, lines 289-299).  The entered text is *)
(* a sequence of characters; SUP2 is the superscript two, a character      *)
(* that str.isdigit accepts and int() rejects.                             *)
(***************************************************************************)
MaxSelectionLen == 4
MesoCount == 2

SUP2 == "²"
AsciiDigits == <<"0", "1", "2", "3", "4", "5", "6", "7", "8", "9">>
SelectionChars == {"0", "1", "2", ",", "-", " ", "a", SUP2}

\* c.isdigit() of one character
IsDigitChar(c) == InList(c, AsciiDigits) \/ c = SUP2

\* s.isdigit(): at least one character and every character a digit
IsDigit(chars) == chars # <<>> /\ \A i \in 1..Len(chars) : IsDigitChar(chars[i])

\* the value of an ASCII digit
DigitValue(c) == (CHOOSE i \in 1..Len(AsciiDigits) : AsciiDigits[i] = c) - 1

RECURSIVE ParseInt(_)
\* int(s) of a string of digit characters: None stands for ValueError
ParseInt(chars) ==
    IF chars = <<>>
    THEN Some(0)
    ELSE LET front == ParseInt(SubSeq(chars, 1, Len(chars) - 1))
             last == chars[Len(chars)]
         IN IF front = None \/ ~InList(last, AsciiDigits)
            THEN None
            ELSE Some(10 * front[1] + DigitValue(last))

\* the position of the first occurrence of c, 0 when there is none
Find(chars, c) ==
    IF InList(c, chars)
    THEN CHOOSE i \in 1..Len(chars) : chars[i] = c /\ \A j \in 1..(i - 1) : chars[j] # c
    ELSE 0

RECURSIVE Split(_, _)
\* s.split(c)
Split(chars, c) ==
    IF Find(chars, c) = 0
    THEN <<chars>>
    ELSE <<SubSeq(chars, 1, Find(chars, c) - 1)>>
         \o Split(SubSeq(chars, Find(chars, c) + 1, Len(chars)), c)

RECURSIVE Strip(_)
\* s.strip()
Strip(chars) ==
    IF chars # <<>> /\ chars[1] = " "
    THEN Strip(Tail(chars))
    ELSE IF chars # <<>> /\ chars[Len(chars)] = " "
         THEN Strip(SubSeq(chars, 1, Len(chars) - 1))
         ELSE chars

\* lines 292-298: the indices one part of the selection adds, None for ValueError
PartIndices(raw) ==
    LET part == Strip(raw)
        cut == Find(part, "-")
        start == SubSeq(part, 1, cut - 1)
        end == SubSeq(part, cut + 1, Len(part))
    IN IF cut # 0
       THEN IF IsDigit(start) /\ IsDigit(end)
            THEN IF ParseInt(start) = None \/ ParseInt(end) = None
                 THEN None
                 ELSE Some(ParseInt(start)[1] .. ParseInt(end)[1])
            ELSE Some({})
       ELSE IF IsDigit(part)
            THEN IF ParseInt(part) = None THEN None ELSE Some({ParseInt(part)[1]})
            ELSE Some({})

RECURSIVE PartsLoop(_, _, _)
\* line 291: for part in selection.split(',')
PartsLoop(indices, parts, i) ==
    IF i > Len(parts)
    THEN Some(indices)
    ELSE IF PartIndices(parts[i]) = None
         THEN None
         ELSE PartsLoop(indices \cup PartIndices(parts[i])[1], parts, i + 1)

\* line 299: the positions in meso_list of the selected mesocycles, in order
Selected(indices, n) == Ascending({i \in indices : 0 <= i /\ i < n})

\* lines 290-299: the outcome of the selection for a list of n mesocycles
ParseSelection(selection, n) ==
    LET indices == PartsLoop({}, Split(selection, ","), 1)
    IN IF indices = None
       THEN [ok |-> FALSE, error |-> "ValueError", selected |-> <<>>]
       ELSE [ok |-> TRUE, error |-> "", selected |-> Selected(indices[1], n)]

InitSelect ==
    /\ pc = "input"
    /\ sel = [selection |-> <<>>, outcome |-> None]
    /\ meso = EmptyMeso /\ agg = EmptyAgg /\ doc = <<>>
    /\ lk = <<>> /\ run = <<>>

\* line 289: the user enters the selection, character by character
TypeChar ==
    /\ pc = "input"
    /\ Len(sel.selection) < MaxSelectionLen
    /\ \E c \in SelectionChars : sel' = [sel EXCEPT !.selection = Append(@, c)]
    /\ UNCHANGED <<pc, meso, agg, doc, lk, run>>

\* lines 290-299
Select ==
    /\ pc = "input"
    /\ pc' = "done"
    /\ sel' = [sel EXCEPT !.outcome = Some(ParseSelection(sel.selection, MesoCount))]
    /\ UNCHANGED <<meso, agg, doc, lk, run>>

SpecSelect == InitSelect /\ [][TypeChar \/ Select]_vars

(***************************************************************************)
(* C7: the entered text is split on commas; a token that is a non-negative *)
(* decimal integer selects that index, a token a-b of two decimal integers *)
(* selects every index from a to b, and any other token and any index      *)
(* outside 0..len(list)-1 is ignored without error; the selected           *)
(* mesocycles are processed at most once each, in ascending index order.   *)
(***************************************************************************)
IsDecimal(chars) == chars # <<>> /\ \A i \in 1..Len(chars) : InList(chars[i], AsciiDigits)

RECURSIVE Decimal(_)
Decimal(chars) ==
    IF chars = <<>>
    THEN 0
    ELSE 10 * Decimal(SubSeq(chars, 1, Len(chars) - 1)) + DigitValue(chars[Len(chars)])

\* the indices a token stands for, as the claim reads
TokenIndices(raw) ==
    LET token == Strip(raw)
        cut == Find(token, "-")
        a == SubSeq(token, 1, cut - 1)
        b == SubSeq(token, cut + 1, Len(token))
    IN IF IsDecimal(token)
       THEN {Decimal(token)}
       ELSE IF cut # 0 /\ IsDecimal(a) /\ IsDecimal(b)
            THEN Decimal(a) .. Decimal(b)
            ELSE {}

ClaimedSelection(selection, n) ==
    LET tokens == Split(selection, ",")
    IN Ascending({i \in UNION {TokenIndices(tokens[t]) : t \in 1..Len(tokens)} :
                     0 <= i /\ i < n})

\* C7: the selection raises no error and selects, in ascending order and once each,
\* the indices within the list that its decimal tokens and ranges stand for.
C7_SelectionIgnoresWhatIsNoIndex ==
    pc = "done" =>
        /\ sel.outcome[1].ok
        /\ sel.outcome[1].selected = ClaimedSelection(sel.selection, MesoCount)

\* what does hold: the claim for a text without a digit character that int() rejects
C7_SelectionOfDecimalText ==
    (pc = "done" /\ ~InList(SUP2, sel.selection)) =>
        /\ sel.outcome[1].ok
        /\ sel.outcome[1].selected = ClaimedSelection(sel.selection, MesoCount)

(***************************************************************************)
(* The orchestrator loop of main (lines 301-353) over the selected         *)
(* mesocycles.  run.files is the output directory: the content of every    *)
(* Markdown and JSON file by its name.  run.fetched is the sequence of the *)
(* responses the server has given to the detail fetches so far.            *)
(***************************************************************************)
\* the status that fetch_mesocycle_detail takes for "skip" (line 209) and the least
\* status for which raise_for_status raises (line 51)
HttpGone == 410
HttpErrorFrom == 400

\* the statuses the server answers with
Statuses == {200, 404, 410, 500}

PayloadNames ==
    { <<"F", "o", "o">>, <<"F", "o", "o", " ", "(", "2", ")">>, <<" ", "A", "/", "B">> }

\* what the server may answer to the detail fetch of `key`: an error status, an
\* empty JSON value, or a payload
Responses(key) ==
    {[status |-> st, body |-> None] : st \in Statuses}
    \cup {[status |-> 200,
           body |-> Some([name |-> name, key |-> key, weeks |-> ScenarioMeso.weeks])] :
             name \in PayloadNames}

\* get_json, lines 50-53: raise_for_status, then the JSON body
get_json(response) ==
    IF response.status >= HttpErrorFrom
    THEN [raised |-> Some(response.status), data |-> None]
    ELSE [raised |-> None, data |-> response.body]

\* fetch_mesocycle_detail that lets every HTTPError through
fetch_mesocycle_detailNoGone(response) == get_json(response)

fetch_mesocycle_detail(response) ==
    IF get_json(response).raised = Some(HttpGone)
    THEN [raised |-> None, data |-> None]
    ELSE get_json(response)

\* a path of the output directory is [stem, suffix]; its name is stem + suffix
PathName(path) == path.stem \o path.suffix

\* line 236: base_path.with_name(f"{base_path.stem} ({i}){base_path.suffix}")
Candidate(base_path, i) ==
    [stem |-> base_path.stem \o " (" \o ToString(i) \o ")", suffix |-> base_path.suffix]

RECURSIVE Probe(_, _, _)
\* lines 235-239
Probe(base_path, existing, i) ==
    IF PathName(Candidate(base_path, i)) \notin existing
    THEN Candidate(base_path, i)
    ELSE Probe(base_path, existing, i + 1)

\* resolve_unique_filename without the test of existence
resolve_unique_filenameNoTest(base_path, existing) == base_path

resolve_unique_filename(base_path, existing) ==
    IF PathName(base_path) \notin existing THEN base_path ELSE Probe(base_path, existing, 2)

\* line 311: meso_data['name'].replace('/', '_').strip()
BaseName(name) == Join(Strip(Replace(name, "/", "_")))

\* lines 325-339: the rows of one day label for the summary accumulator
CsvDayRows(summary, day_label, lookup, n_weeks, stem) ==
    IF day_label \notin DOMAIN summary.day_exercise_map
    THEN <<>>
    ELSE [i \in 1..Len(summary.day_exercise_map[day_label]) |->
            LET ex_id == summary.day_exercise_map[day_label][i]
                key2 == <<day_label, ex_id>>
                weekly_counts == WeeklyCounts(summary.exercise_weekly, key2, n_weeks)
                max_data == MaxData(summary.exercise_max_effort, key2)
            IN [ Mesocycle |-> stem, Day |-> day_label,
                 Exercise |-> ExerciseName(lookup, ex_id),
                 TotalSets |-> Sum(weekly_counts),
                 MaxWeight |-> max_data.weight,
                 MaxReps |-> MaxRepsCell(max_data),
                 Sets |-> [w \in 1..n_weeks |-> weekly_counts[w]] ]]

RECURSIVE CsvRows(_, _, _, _, _)
\* line 322: for day_label in the weekdays
CsvRows(summary, lookup, n_weeks, stem, d) ==
    IF d > Len(WEEKDAY_ORDER)
    THEN <<>>
    ELSE CsvDayRows(summary, WEEKDAY_ORDER[d], lookup, n_weeks, stem)
         \o CsvRows(summary, lookup, n_weeks, stem, d + 1)

OldContent == <<[kind |-> "written by an earlier run"]>>
EarlierFiles == {"Foo.md", "Foo (2).md", "Foo.json"}

InitMain ==
    /\ pc = "loop"
    /\ \E keyed \in [1..MesoCount -> BOOLEAN],
          indices \in SUBSET (0..MesoCount),
          earlier \in SUBSET EarlierFiles,
          save_json \in BOOLEAN :
          run = [ meso_list |-> [i \in 1..MesoCount |->
                                   [name |-> "listed",
                                    key |-> IF keyed[i] THEN Some("k" \o ToString(i)) ELSE None]],
                  save_json |-> save_json,
                  selected |-> Selected(indices, MesoCount),
                  next |-> 0,
                  files |-> [f \in earlier |-> OldContent],
                  rows |-> <<>>,
                  fetched |-> <<>>,
                  csv |-> None ]
    /\ meso = EmptyMeso /\ agg = EmptyAgg /\ doc = <<>>
    /\ lk = <<>> /\ sel = <<>>

\* lines 310-347: the payload is written out
WriteOut(key, meso_data) ==
    LET base_name == BaseName(meso_data.name)
        existing == DOMAIN run.files
        output_json == resolve_unique_filename([stem |-> base_name, suffix |-> ".json"], existing)
        output_file == resolve_unique_filename([stem |-> base_name, suffix |-> ".md"], existing)
        saved == IF run.save_json
                 THEN Put(run.files, PathName(output_json),
                          <<[kind |-> "json", data |-> meso_data]>>)
                 ELSE run.files
        summary == summarize_exercises(meso_data)
        markdown == generate_mesocycle_markdown(meso_data, key \o ".json",
                                                exercise_lookup, DefaultMap)
    IN [run EXCEPT !.next = @ + 1,
                   !.fetched = Append(@, [key |-> key, response |->
                                            [status |-> 200, body |-> Some(meso_data)]]),
                   !.rows = @ \o CsvRows(summary, exercise_lookup, Len(meso_data.weeks),
                                         output_file.stem, 1),
                   !.files = Put(saved, PathName(output_file), markdown)]

\* lines 301-347: one turn of the loop over the selected mesocycles
ProcessMeso ==
    /\ pc = "loop"
    /\ run.next < Len(run.selected)
    /\ LET listed == run.meso_list[run.selected[run.next + 1] + 1]
       IN IF listed.key = None
          THEN /\ run' = [run EXCEPT !.next = @ + 1]
               /\ pc' = pc
          ELSE \E response \in Responses(listed.key[1]) :
                  LET got == fetch_mesocycle_detail(response)
                      seen == Append(run.fetched, [key |-> listed.key[1], response |-> response])
                  IN IF got.raised # None
                     THEN /\ run' = [run EXCEPT !.fetched = seen]
                          /\ pc' = "aborted"
                     ELSE IF got.data = None
                          THEN /\ run' = [run EXCEPT !.next = @ + 1, !.fetched = seen]
                               /\ pc' = pc
                          ELSE /\ run' = WriteOut(listed.key[1], got.data[1])
                               /\ pc' = pc
    /\ UNCHANGED <<meso, agg, doc, lk, sel>>

\* lines 350-353: the summary of all mesocycles is written once, after the loop
WriteCsv ==
    /\ pc = "loop"
    /\ run.next = Len(run.selected)
    /\ pc' = "done"
    /\ run' = [run EXCEPT !.csv = IF run.rows # <<>> THEN Some(run.rows) ELSE None]
    /\ UNCHANGED <<meso, agg, doc, lk, sel>>

SpecMain == InitMain /\ [][ProcessMeso \/ WriteCsv]_vars

(***************************************************************************)
(* C4: output file naming never overwrites.  resolve_unique_filename gives *)
(* the base path when it does not exist and else the path with " (i)"      *)
(* before the extension for the smallest i >= 2 that does not exist; so,   *)
(* over the mesocycles of a run and the files of earlier runs, every       *)
(* Markdown (and JSON) file is written to a path that did not exist before *)
(* the write, and no file that existed keeps anything but its content.     *)
(***************************************************************************)
\* the name the claim gives for a base name and an extension
UnusedName(base_name, extension, existing) ==
    IF base_name \o extension \notin existing
    THEN base_name \o extension
    ELSE LET name(i) == base_name \o " (" \o ToString(i) \o ")" \o extension
             i == CHOOSE k \in 2..(Cardinality(existing) + 2) :
                     /\ name(k) \notin existing
                     /\ \A j \in 2..(k - 1) : name(j) \in existing
         IN name(i)

\* the payload that the turn of the loop just taken has fetched, None if none
JustFetched ==
    IF Len(run'.fetched) > Len(run.fetched)
    THEN run'.fetched[Len(run'.fetched)].response.body
    ELSE None

C4_TurnNeverOverwrites ==
    pc = "loop" =>
        /\ \A f \in DOMAIN run.files :
              f \in DOMAIN run'.files /\ run'.files[f] = run.files[f]
        /\ (JustFetched # None /\ pc' = "loop") =>
              LET base_name == BaseName(JustFetched[1].name)
                  md == UnusedName(base_name, ".md", DOMAIN run.files)
                  json == UnusedName(base_name, ".json", DOMAIN run.files)
              IN /\ md \notin DOMAIN run.files
                 /\ DOMAIN run'.files =
                       DOMAIN run.files \cup {md} \cup (IF run.save_json THEN {json} ELSE {})
                 /\ run'.files[md][1].kind = "frontmatter"
                 /\ run'.files[md][1].source = run'.fetched[Len(run'.fetched)].key \o ".json"

\* C4: no turn of the loop changes a file that exists, and the Markdown and JSON
\* files it writes go to the base name or, when that exists, to the name with the
\* smallest unused " (i)", i >= 2, before the extension.
C4_OutputNamingNeverOverwrites == [][C4_TurnNeverOverwrites]_vars

\* Foo.md of an earlier run is kept and two mesocycles named Foo of this run are
\* in Foo (2).md and Foo (3).md
C4_Witness ==
    /\ pc = "done"
    /\ {"Foo.md", "Foo (2).md", "Foo (3).md"} \subseteq DOMAIN run.files
    /\ run.files["Foo.md"] = OldContent
    /\ run.files["Foo (2).md"][1] = [kind |-> "frontmatter", title |-> "Foo", source |-> "k1.json"]
    /\ run.files["Foo (3).md"][1] = [kind |-> "frontmatter", title |-> "Foo", source |-> "k2.json"]

(***************************************************************************)
(* C5: a detail fetch that fails with status 410 skips the mesocycle (no   *)
(* Markdown or JSON file is written and no summary row is appended for it) *)
(* and every later selected mesocycle is still processed; a fetch that     *)
(* fails with another HTTP error status aborts the run: no later mesocycle *)
(* is processed and the summary CSV is not written.                        *)
(***************************************************************************)
IsFatal(response) == response.status >= HttpErrorFrom /\ response.status # HttpGone
IsPayload(response) == response.status < HttpErrorFrom /\ response.body # None

\* the keys of the selected mesocycles that have one, in the order of the loop
SelectedKeys ==
    LET keys == [i \in 1..Len(run.selected) |-> run.meso_list[run.selected[i] + 1].key]
    IN Flatten([i \in 1..Len(keys) |-> keys[i]])

FetchedKeys == [k \in 1..Len(run.fetched) |-> run.fetched[k].key]

\* the files and rows of this run that come from the fetch of `key`
FilesFrom(key) ==
    {f \in DOMAIN run.files :
        \/ run.files[f][1].kind = "frontmatter" /\ run.files[f][1].source = key \o ".json"
        \/ run.files[f][1].kind = "json" /\ run.files[f][1].data.key = key}

\* C5: a fetch leaves files and a row exactly when it brought a payload; a 410 is
\* passed over and the loop fetches on; another error status is the last fetch of
\* the run and leaves the summary CSV unwritten.
C5_GoneIsSkippedOtherErrorsAbort ==
    pc \in {"loop", "done", "aborted"} =>
        LET payloads == {k \in 1..Len(run.fetched) : IsPayload(run.fetched[k].response)}
        IN /\ \A k \in 1..Len(run.fetched) :
                 /\ FilesFrom(run.fetched[k].key) # {} <=> k \in payloads
                 /\ IsFatal(run.fetched[k].response) <=> (pc = "aborted" /\ k = Len(run.fetched))
           /\ Len(run.rows) = Cardinality(payloads)
           /\ pc = "aborted" => (run.csv = None /\ run.fetched # <<>>)
           /\ pc = "done" => /\ FetchedKeys = SelectedKeys
                             /\ run.csv = IF payloads = {} THEN None ELSE Some(run.rows)
           /\ \E n \in 0..Len(SelectedKeys) : FetchedKeys = SubSeq(SelectedKeys, 1, n)

\* the first fetch is answered 410 and the next mesocycle is fetched and written out
C5_Witness ==
    /\ pc = "done"
    /\ Len(run.fetched) = 2
    /\ run.fetched[1].response.status = HttpGone
    /\ IsPayload(run.fetched[2].response)
    /\ FilesFrom("k1") = {} /\ FilesFrom("k2") # {}
    /\ Len(run.rows) = 1

\* a fetch answered 500 has ended the run after an earlier mesocycle was written out
C5_WitnessAborted ==
    /\ pc = "aborted"
    /\ Len(run.fetched) = 2
    /\ run.fetched[2].response.status = 500
    /\ run.rows # <<>> /\ run.csv = None

====
